---- MODULE Spec2Model ----
(***************************************************************************)
(* The ShotAPI client: one batch call driving screenshot calls, each with  *)
(* its retry loop.  The repository holds two generations of the client:    *)
(*   gen = "A"  the class of src/src/index.ts                              *)
(*   gen = "B"  the class whose source follows the prose of src/README.md  *)
(* Both are modelled; a behaviour starts by choosing one of them.          *)
(*                                                                         *)
(* JavaScript runs every callback to completion, so one action is one run  *)
(* of synchronous code between two suspension points (await fetch/json,    *)
(* await sleep, await Promise.all).                                        *)
(***************************************************************************)
EXTENDS Integers, Sequences, FiniteSets, TLC

\* ---- bounds of the model -------------------------------------------------
MaxUrls == 3
MaxRetries == 2
\* at most MaxWork network attempts are possible in one behaviour:
\* Len(urls) * (retries + 1) <= MaxWork
MaxWork == 4
\* a screenshot call made on its own has retries in 0..MaxShotRetries
MaxShotRetries == 1
\* the batches whose termination is checked have at most MaxLiveUrls urls
MaxLiveUrls == 2

\* ---- program constants ---------------------------------------------------
BackoffBaseMs == 1000
PaceMs == 100

VARIABLES
  gen,            \* which generation of the class runs
  apiKey,         \* config.apiKey
  cerror,         \* the error the constructor threw (NoError: the client exists)
  retries,        \* this.retries
  maxConcurrent,  \* config.maxConcurrent
  urls,           \* the urls argument of batch
  options,        \* the options argument of batch
  bpc,            \* position of the batch call
  i,              \* loop variable of batch (generation B)
  next,           \* 1-based index of the next url the map callback starts
  results,        \* the results array of batch / the returned array
  berror,         \* the error the batch call raised
  paces,          \* history: pacing delays slept by batch, in ms
  bfrom,          \* history: index of the request whose error batch raised, 0 if none
  pc,             \* per request: position of the screenshot call
  attempt,        \* per request: loop variable of request()
  lastError,      \* per request: lastError of request()
  nfetch,         \* history, per request: number of fetch() calls issued
  waits,          \* history, per request: backoff sleeps, in ms
  lastOutcome,    \* history, per request: outcome of the latest attempt
  ret,            \* per request: the payload the call returned
  err,            \* per request: the error the call raised
  params,         \* the URLSearchParams the latest screenshot() call handed to request()
  overtaken       \* history: some call returned while a call for an earlier url was pending

cfgVars == <<gen, apiKey, cerror, retries, maxConcurrent, urls, options>>
batchVars == <<bpc, i, next, results, berror, paces, bfrom>>
reqVars == <<pc, attempt, lastError, nfetch, waits, lastOutcome, ret, err, params, overtaken>>
vars == <<gen, apiKey, cerror, retries, maxConcurrent, urls, options, bpc, i, next, results, berror,
          paces, bfrom, pc, attempt, lastError, nfetch, waits,
          lastOutcome, ret, err, params, overtaken>>

\* ---- data ----------------------------------------------------------------
Min(a, b) == IF a < b THEN a ELSE b

RECURSIVE Pow2(_)
Pow2(n) == IF n <= 0 THEN 1 ELSE 2 * Pow2(n - 1)

\* The url strings batch is called with, and the protocol `new URL(url)` gives
\* a string ("throws" when the constructor throws).
UrlSet == {"", "https://a.example"}

\* The url strings a screenshot call made on its own is given.
ShotUrlSet == {"", "ftp://x", "not a url", "http://a.example", "https://a.example"}

UrlProtocol(url) ==
  CASE url = "https://a.example" -> "https:"
    [] url = "http://a.example" -> "http:"
    [] url = "ftp://x" -> "ftp:"
    [] OTHER -> "throws"

\* new ShotAPIException(message, code, details, statusCode) and the other
\* Error objects that reach a catch block.  code "undefined" and statusCode 0
\* stand for an absent field.
Exception(message, code, statusCode) ==
  [name |-> "ShotAPIException", message |-> message, code |-> code,
   statusCode |-> statusCode]

NativeError(name, message) ==
  [name |-> name, message |-> message, code |-> "undefined", statusCode |-> 0]

NoError == [name |-> "null", message |-> "", code |-> "undefined", statusCode |-> 0]

\* ---- constructor ------------------------------------------------------------
\* The api keys a client is constructed with; `!config.apiKey` is true of the
\* empty string.  Each operator gives the exception the constructor throws,
\* NoError when it returns the client.
ApiKeySet == {"", "sk_test"}

constructorA(key) ==
  IF key = "" THEN Exception("API key is required", "undefined", 0) ELSE NoError

constructorB(key) ==
  IF key = "" THEN Exception("API key is required", "MISSING_API_KEY", 0) ELSE NoError

\* HTTP statuses the server answers with, and the bodies that come with them.
Statuses == {200, 404, 500, 503}

ResponseOk(status) == status >= 200 /\ status <= 299

PayloadBody == [kind |-> "payload", error |-> "undefined", code |-> "undefined"]
CodedErrorBody == [kind |-> "error", error |-> "server message", code |-> "SERVER_CODE"]
PlainErrorBody == [kind |-> "error", error |-> "server message", code |-> "undefined"]
GarbageBody == [kind |-> "garbage", error |-> "undefined", code |-> "undefined"]
NoBody == [kind |-> "none", error |-> "undefined", code |-> "undefined"]

BodiesOf(status) ==
  IF ResponseOk(status) THEN {PayloadBody, GarbageBody}
  ELSE {CodedErrorBody, PlainErrorBody, GarbageBody}

\* What one attempt can end in: a response, the abort of the deadline timer,
\* or a rejection of fetch() by the transport.
Outcomes ==
  UNION {{[type |-> "response", status |-> s, body |-> b] : b \in BodiesOf(s)} :
           s \in Statuses}
    \cup {[type |-> "abort", status |-> 0, body |-> NoBody],
          [type |-> "network", status |-> 0, body |-> NoBody]}

NoOutcome == [type |-> "none", status |-> 0, body |-> NoBody]

\* The payload the server sends for the request of input url number j.
Payload(j) == [shot |-> j]
NoPayload == [shot |-> 0]

\* An optional number of the options object.
Absent == [present |-> FALSE, value |-> 0]
Some(n) == [present |-> TRUE, value |-> n]

\* JavaScript truthiness of an optional number: present, and not 0.
Truthy(n) == n.present /\ n.value # 0

\* The options without their url (batch and screenshot add the url).  device
\* is "undefined" or the name of a preset; mobile is "undefined", "true" or
\* "false".  NoOptions: batch(urls) called without its second argument.
NoOptions ==
  [device |-> "undefined", width |-> Absent, height |-> Absent, quality |-> Absent,
   scale |-> Absent, delay |-> Absent, mobile |-> "undefined"]

\* The presets whose scale is a whole number (pixel-7 has scale 2.625).
DEVICE_PRESETS ==
  [n \in {"desktop", "laptop", "tablet", "mobile", "iphone-14", "iphone-14-pro",
          "iphone-14-pro-max", "ipad", "ipad-pro", "galaxy-s23"} |->
     CASE n = "desktop" -> [width |-> 1920, height |-> 1080, mobile |-> FALSE, scale |-> 1]
       [] n = "laptop" -> [width |-> 1366, height |-> 768, mobile |-> FALSE, scale |-> 1]
       [] n = "tablet" -> [width |-> 768, height |-> 1024, mobile |-> TRUE, scale |-> 2]
       [] n = "mobile" -> [width |-> 375, height |-> 812, mobile |-> TRUE, scale |-> 3]
       [] n = "iphone-14" -> [width |-> 390, height |-> 844, mobile |-> TRUE, scale |-> 3]
       [] n = "iphone-14-pro" -> [width |-> 393, height |-> 852, mobile |-> TRUE, scale |-> 3]
       [] n = "iphone-14-pro-max" -> [width |-> 430, height |-> 932, mobile |-> TRUE, scale |-> 3]
       [] n = "ipad" -> [width |-> 810, height |-> 1080, mobile |-> TRUE, scale |-> 2]
       [] n = "ipad-pro" -> [width |-> 1024, height |-> 1366, mobile |-> TRUE, scale |-> 2]
       [] OTHER -> [width |-> 360, height |-> 780, mobile |-> TRUE, scale |-> 3]]

\* The option values a screenshot call made on its own is given: the values
\* around the limits of quality and delay, and the display options with and
\* without a device preset.
QualitySet == {Absent} \cup {Some(n) : n \in {-5, 0, 1, 100, 101}}
DelaySet == {Absent} \cup {Some(n) : n \in {-1, 0, 10000, 10001}}
DeviceSet == {"undefined", "desktop", "iphone-14-pro"}
WidthSet == {Absent, Some(0), Some(999), Some(1280)}
HeightSet == {Absent, Some(0), Some(720)}
ScaleSet == {Absent, Some(2)}
MobileSet == {"undefined", "true", "false"}

LimitOptions ==
  {[NoOptions EXCEPT !.quality = q, !.delay = d] : q \in QualitySet, d \in DelaySet}

DisplayOptions ==
  {[NoOptions EXCEPT !.device = dv, !.width = w, !.height = h, !.scale = s, !.mobile = m] :
     dv \in DeviceSet, w \in WidthSet, h \in HeightSet, s \in ScaleSet, m \in MobileSet}

\* The arguments of the screenshot calls: every url with the quality and
\* delay values, a good url with the display options.
ShotInputs ==
  (ShotUrlSet \X LimitOptions) \cup ({"https://a.example"} \X DisplayOptions)

\* ---- screenshot(): validation ---------------------------------------------
\* `!options.url` is true of the empty string only (the url is a string).
\* Each operator gives the exception screenshot() throws before it calls
\* request(), NoError when it goes on.
isValidUrl(url) == UrlProtocol(url) \in {"http:", "https:"}

ValidateA(url, opts) ==
  IF url = "" THEN Exception("URL is required", "undefined", 0) ELSE NoError

ValidateB(url, opts) ==
  IF url = "" THEN Exception("URL is required", "MISSING_URL", 0)
  ELSE IF ~isValidUrl(url) THEN Exception("Invalid URL", "INVALID_URL", 0)
  ELSE IF opts.quality.present /\ (opts.quality.value < 1 \/ opts.quality.value > 100)
    THEN Exception("Quality must be between 1 and 100", "INVALID_QUALITY", 0)
  ELSE IF opts.delay.present /\ (opts.delay.value < 0 \/ opts.delay.value > 10000)
    THEN Exception("Delay must be between 0 and 10000 milliseconds", "INVALID_DELAY", 0)
  ELSE NoError

\* ---- screenshot(): buildParams ---------------------------------------------
\* A URLSearchParams over the keys of interest; "null" is what get() gives for
\* a key that was never set.
ParamKeys == {"url", "width", "height", "mobile", "scale", "quality", "delay"}
NoParams == [k \in ParamKeys |-> "null"]

\* params.set(key, value)
set(p, key, value) == [p EXCEPT ![key] = value]

\* The statements of buildParams the two generations share: the url, the
\* device preset or the explicit width and height, and quality.
buildDisplay(url, opts) ==
  LET p0 == set(NoParams, "url", url)
      preset == DEVICE_PRESETS[opts.device]
      p1 == set(p0, "width", ToString(preset.width))
      p2 == set(p1, "height", ToString(preset.height))
      p3 == IF preset.mobile THEN set(p2, "mobile", "true") ELSE p2
      p4 == IF preset.scale # 1 THEN set(p3, "scale", ToString(preset.scale)) ELSE p3
      q1 == IF Truthy(opts.width) THEN set(p0, "width", ToString(opts.width.value)) ELSE p0
      q2 == IF Truthy(opts.height) THEN set(q1, "height", ToString(opts.height.value)) ELSE q1
      d == IF opts.device # "undefined"
             THEN IF opts.device \in DOMAIN DEVICE_PRESETS THEN p4 ELSE p0
             ELSE q2
  IN IF Truthy(opts.quality) THEN set(d, "quality", ToString(opts.quality.value)) ELSE d

buildParamsA(url, opts) ==
  LET p5 == buildDisplay(url, opts)
      p6 == IF Truthy(opts.scale) THEN set(p5, "scale", ToString(opts.scale.value)) ELSE p5
      p7 == IF Truthy(opts.delay) THEN set(p6, "delay", ToString(opts.delay.value)) ELSE p6
  IN IF opts.mobile = "true" THEN set(p7, "mobile", "true") ELSE p7

buildParamsB(url, opts) ==
  LET p5 == buildDisplay(url, opts)
      p6 == IF Truthy(opts.scale) /\ opts.device = "undefined"
              THEN set(p5, "scale", ToString(opts.scale.value)) ELSE p5
      p7 == IF Truthy(opts.delay) THEN set(p6, "delay", ToString(opts.delay.value)) ELSE p6
  IN IF opts.mobile = "true" /\ opts.device = "undefined" THEN set(p7, "mobile", "true") ELSE p7

\* The params screenshot() hands to request(); when validation throws, none
\* are built and the ones of the call before stay the latest.
paramsA(url, opts) ==
  IF ValidateA(url, opts) # NoError THEN params ELSE buildParamsA(url, opts)

paramsB(url, opts) ==
  IF ValidateB(url, opts) # NoError THEN params ELSE buildParamsB(url, opts)

\* ---- request(): one attempt -----------------------------------------------
\* A step of the retry loop: the call issues a fetch, returns, throws, or
\* sleeps before the next attempt.
Fetch(le) == [kind |-> "fetch", error |-> NoError, lastError |-> le, wait |-> 0]

\* Return without its `return`: the loop goes on to another fetch.
ReturnDropped(le) == Fetch(le)

Return(le) == [kind |-> "return", error |-> NoError, lastError |-> le, wait |-> 0]
Throw(e, le) == [kind |-> "throw", error |-> e, lastError |-> le, wait |-> 0]
Sleep(ms, le) == [kind |-> "sleep", error |-> NoError, lastError |-> le, wait |-> ms]

\* Math.pow(2, attempt) * 1000
BackoffMs(a) == Pow2(a) * BackoffBaseMs

\* `throw lastError || new ShotAPIException(...)` after the loop.
ExhaustedA(le) ==
  IF le # NoError THEN le ELSE Exception("Request failed after retries", "undefined", 0)

ExhaustedB(le) ==
  IF le # NoError THEN le ELSE Exception("Request failed after retries", "MAX_RETRIES", 0)

\* Generation A: what the try block throws (NoError when it returns data).
\* response.json() runs before response.ok is looked at.
ThrownA(o) ==
  CASE o.type = "abort" -> NativeError("AbortError", "This operation was aborted")
    [] o.type = "network" -> NativeError("TypeError", "fetch failed")
    [] o.body.kind = "garbage" -> NativeError("SyntaxError", "Unexpected token")
    [] ~ResponseOk(o.status) ->
         Exception(IF o.body.error # "undefined" THEN o.body.error ELSE "Unknown error",
                   o.body.code, o.status)
    [] OTHER -> NoError

\* Generation A: the catch block, and the end of the loop when no sleep follows.
CatchA(e, a, r) ==
  IF e.name = "ShotAPIException" /\ e.statusCode # 0 /\ e.statusCode < 500
    THEN Throw(e, e)
  ELSE IF a < r THEN Sleep(BackoffMs(a), e)
  ELSE Throw(ExhaustedA(e), e)

requestA(o, a, r, le) ==
  IF ThrownA(o) = NoError THEN Return(le) ELSE CatchA(ThrownA(o), a, r)

\* Generation B: the exception built for a response that is not ok; a body
\* that does not parse leaves errorData null.
HttpStatusMessage(status) == "HTTP " \o ToString(status)

HttpErrorB(o) ==
  Exception(IF o.body.kind = "error" /\ o.body.error # "undefined"
              THEN o.body.error ELSE HttpStatusMessage(o.status),
            IF o.body.kind = "error" /\ o.body.code # "undefined"
              THEN o.body.code ELSE "HTTP_ERROR",
            o.status)

\* Generation B: the exception the catch block records for an error that is
\* not a ShotAPIException.
CaughtB(o) ==
  CASE o.type = "abort" -> Exception("Request timeout", "TIMEOUT", 0)
    [] o.type = "network" -> Exception("fetch failed", "NETWORK_ERROR", 0)
    [] OTHER -> Exception("Unexpected token", "NETWORK_ERROR", 0)

\* Generation B: back off and go round the loop, or leave it.
RetryB(e, a, r) ==
  IF a < r THEN Sleep(BackoffMs(a), e) ELSE Throw(ExhaustedB(e), e)

requestB(o, a, r, le) ==
  IF o.type = "response" /\ ~ResponseOk(o.status)
    THEN IF o.status >= 400 /\ o.status < 500
           THEN Throw(HttpErrorB(o), le)
           ELSE RetryB(HttpErrorB(o), a, r)
  ELSE IF o.type = "response" /\ o.body.kind = "payload" THEN Return(le)
  ELSE RetryB(CaughtB(o), a, r)

\* ---- request(): the loop ----------------------------------------------------
\* `attempt <= this.retries` at the head of the loop: issue fetch(), or leave
\* the loop and throw.
LoopA(a, r, le) == IF a <= r THEN Fetch(le) ELSE Throw(ExhaustedA(le), le)

LoopB(a, r, le) == IF a <= r THEN Fetch(le) ELSE Throw(ExhaustedB(le), le)

\* screenshot(options) up to its first suspension point.
screenshotA(url, opts, r) ==
  IF ValidateA(url, opts) # NoError THEN Throw(ValidateA(url, opts), NoError)
  ELSE LoopA(0, r, NoError)

screenshotB(url, opts, r) ==
  IF ValidateB(url, opts) # NoError THEN Throw(ValidateB(url, opts), NoError)
  ELSE LoopB(0, r, NoError)

\* Apply with lastError kept in one field of the client instead of a local
\* variable of request(): every call sees the error the latest step recorded.
ApplyShared(j, step, o) ==
  /\ pc' = [pc EXCEPT ![j] =
              CASE step.kind = "return" -> "returned"
                [] step.kind = "throw" -> "raised"
                [] step.kind = "sleep" -> "sleep"
                [] OTHER -> "fetch"]
  /\ lastError' = [k \in DOMAIN lastError |-> step.lastError]
  /\ waits' = [waits EXCEPT ![j] = IF step.kind = "sleep" THEN Append(@, step.wait) ELSE @]
  /\ nfetch' = [nfetch EXCEPT ![j] = IF step.kind = "fetch" THEN @ + 1 ELSE @]
  /\ ret' = [ret EXCEPT ![j] = IF step.kind = "return" THEN Payload(j) ELSE @]
  /\ err' = [err EXCEPT ![j] = IF step.kind = "throw" THEN step.error ELSE @]
  /\ lastOutcome' = [lastOutcome EXCEPT ![j] = o]
  /\ overtaken' = (overtaken \/ (step.kind = "return" /\ \E k \in 1..(j - 1) : pc[k] \in {"fetch", "sleep"}))

\* The effect of a step of screenshot call j on its state; o is the outcome
\* of the attempt the step handles (NoOutcome when it handles none).
Apply(j, step, o) ==
  /\ pc' = [pc EXCEPT ![j] =
              CASE step.kind = "return" -> "returned"
                [] step.kind = "throw" -> "raised"
                [] step.kind = "sleep" -> "sleep"
                [] OTHER -> "fetch"]
  /\ lastError' = [lastError EXCEPT ![j] = step.lastError]
  /\ waits' = [waits EXCEPT ![j] = IF step.kind = "sleep" THEN Append(@, step.wait) ELSE @]
  /\ nfetch' = [nfetch EXCEPT ![j] = IF step.kind = "fetch" THEN @ + 1 ELSE @]
  /\ ret' = [ret EXCEPT ![j] = IF step.kind = "return" THEN Payload(j) ELSE @]
  /\ err' = [err EXCEPT ![j] = IF step.kind = "throw" THEN step.error ELSE @]
  /\ lastOutcome' = [lastOutcome EXCEPT ![j] = o]
  /\ overtaken' = (overtaken \/ (step.kind = "return" /\ \E k \in 1..(j - 1) : pc[k] \in {"fetch", "sleep"}))

\* ---- batch() ----------------------------------------------------------------
\* The indices (1-based) of the urls whose promises batch is awaiting.
ChunkA == 1..Len(urls)

\* urls.slice(i, i + this.maxConcurrent)
ChunkB == (i + 1)..Min(i + maxConcurrent, Len(urls))

\* The array Promise.all fulfils with: the values in the order of the promises.
PromiseAllValues(first, last, values) ==
  [k \in 1..(last - first + 1) |-> values[first + k - 1]]

\* results.unshift(...chunkResults) in place of push.
unshiftResults(res, chunkResults) == chunkResults \o res

\* results.push(...chunkResults)
pushResults(res, chunkResults) == res \o chunkResults

\* Promise.all rejects with the rejection whose reaction runs first.  Of the
\* promises already rejected when Promise.all subscribes, the ones screenshot()
\* rejected itself come before the ones adopted from request(), each group in
\* index order.
SetMin(S) == CHOOSE x \in S : \A y \in S : x <= y

FirstRejected(S, invalid) ==
  IF \E k \in S : pc[k] = "raised" /\ invalid[k]
    THEN SetMin({k \in S : pc[k] = "raised" /\ invalid[k]})
    ELSE SetMin({k \in S : pc[k] = "raised"})

\* Generation A: `return Promise.all(promises)` fulfilled.
ChunkDoneA ==
  /\ bpc' = "returned"
  /\ results' = PromiseAllValues(1, Len(urls), ret')
  /\ UNCHANGED <<i, next, berror, paces, bfrom>>

\* Generation B: `await Promise.all(promises)` fulfilled; the rest of the loop
\* body, the increment and the loop test.  The history `paces` keeps the first
\* Len(urls) delays; a batch that comes to its end sleeps fewer.
ChunkDoneB ==
  /\ results' = pushResults(results,
                            PromiseAllValues(i + 1, Min(i + maxConcurrent, Len(urls)), ret'))
  /\ IF i + maxConcurrent < Len(urls)
       THEN /\ bpc' = "pace"
            /\ paces' = (IF Len(paces) < Len(urls) THEN Append(paces, PaceMs) ELSE paces)
            /\ i' = i
       ELSE /\ bpc' = "returned"
            /\ paces' = paces
            /\ i' = i + maxConcurrent
  /\ UNCHANGED <<next, berror, bfrom>>

\* A rejection nobody propagates: batch goes on waiting.
BatchSwallow(j) == UNCHANGED batchVars

\* The awaited Promise.all rejects: batch throws the error of call j.
BatchRaise(j) ==
  /\ bpc' = "raised"
  /\ berror' = err'[j]
  /\ bfrom' = j
  /\ UNCHANGED <<i, next, results, paces>>

\* What the settling of screenshot call j means for the batch call.
ReactA(j) ==
  IF bpc = "await" /\ j \in ChunkA
    THEN IF pc'[j] = "raised" THEN BatchRaise(j)
         ELSE IF \A k \in ChunkA : pc'[k] = "returned" THEN ChunkDoneA
         ELSE UNCHANGED batchVars
    ELSE UNCHANGED batchVars

ReactB(j) ==
  IF bpc = "await" /\ j \in ChunkB
    THEN IF pc'[j] = "raised" THEN BatchRaise(j)
         ELSE IF \A k \in ChunkB : pc'[k] = "returned" THEN ChunkDoneB
         ELSE UNCHANGED batchVars
    ELSE UNCHANGED batchVars

\* ---- the state machine ------------------------------------------------------
Init ==
  /\ gen \in {"A", "B"}
  /\ apiKey \in ApiKeySet
  /\ cerror = (IF gen = "A" THEN constructorA(apiKey) ELSE constructorB(apiKey))
  /\ retries \in (-1)..MaxRetries
  /\ maxConcurrent \in 1..MaxUrls
  /\ urls \in UNION {[1..n -> UrlSet] : n \in 0..MaxUrls}
  /\ options = NoOptions
  /\ Len(urls) * (retries + 1) <= MaxWork
  /\ bpc = "call"
  /\ i = 0
  /\ next = 1
  /\ results = <<>>
  /\ berror = NoError
  /\ paces = <<>>
  /\ bfrom = 0
  /\ pc = [j \in DOMAIN urls |-> "idle"]
  /\ attempt = [j \in DOMAIN urls |-> 0]
  /\ lastError = [j \in DOMAIN urls |-> NoError]
  /\ nfetch = [j \in DOMAIN urls |-> 0]
  /\ waits = [j \in DOMAIN urls |-> <<>>]
  /\ lastOutcome = [j \in DOMAIN urls |-> NoOutcome]
  /\ ret = [j \in DOMAIN urls |-> NoPayload]
  /\ err = [j \in DOMAIN urls |-> NoError]
  /\ params = NoParams
  /\ overtaken = FALSE

\* Generation A, batch(): entry, the map callback for url j, Promise.all.
BatchCallA ==
  /\ gen = "A" /\ cerror = NoError /\ bpc = "call"
  /\ bpc' = "map"
  /\ next' = 1
  /\ UNCHANGED <<i, results, berror, paces, bfrom>>
  /\ UNCHANGED reqVars
  /\ UNCHANGED cfgVars

BatchMapA(j) ==
  /\ gen = "A" /\ bpc = "map" /\ j = next /\ j <= Len(urls)
  /\ Apply(j, screenshotA(urls[j], options, retries), NoOutcome)
  /\ params' = paramsA(urls[j], options)
  /\ attempt' = attempt
  /\ next' = j + 1
  /\ UNCHANGED <<bpc, i, results, berror, paces, bfrom>>
  /\ UNCHANGED cfgVars

BatchAllA ==
  /\ gen = "A" /\ bpc = "map" /\ next > Len(urls)
  /\ UNCHANGED reqVars
  /\ IF \E k \in ChunkA : pc[k] = "raised"
       THEN BatchRaise(FirstRejected(ChunkA, [k \in DOMAIN urls |-> ValidateA(urls[k], options) # NoError]))
       ELSE IF \A k \in ChunkA : pc[k] = "returned" THEN ChunkDoneA
       ELSE /\ bpc' = "await"
            /\ UNCHANGED <<i, next, results, berror, paces, bfrom>>
  /\ UNCHANGED cfgVars

\* Generation B, batch(): entry and loop test, the map callback for url j,
\* Promise.all, the end of the pacing sleep.
BatchCallB ==
  /\ gen = "B" /\ cerror = NoError /\ bpc = "call"
  /\ results' = <<>>
  /\ i' = 0
  /\ bpc' = IF 0 < Len(urls) THEN "map" ELSE "returned"
  /\ next' = 1
  /\ UNCHANGED <<berror, paces, bfrom>>
  /\ UNCHANGED reqVars
  /\ UNCHANGED cfgVars

BatchMapB(j) ==
  /\ gen = "B" /\ bpc = "map" /\ j = next /\ j \in ChunkB
  /\ Apply(j, screenshotB(urls[j], options, retries), NoOutcome)
  /\ params' = paramsB(urls[j], options)
  /\ attempt' = attempt
  /\ next' = j + 1
  /\ UNCHANGED <<bpc, i, results, berror, paces, bfrom>>
  /\ UNCHANGED cfgVars

BatchAllB ==
  /\ gen = "B" /\ bpc = "map" /\ next \notin ChunkB
  /\ UNCHANGED reqVars
  /\ IF \E k \in ChunkB : pc[k] = "raised"
       THEN BatchRaise(FirstRejected(ChunkB, [k \in DOMAIN urls |-> ValidateB(urls[k], options) # NoError]))
       ELSE IF \A k \in ChunkB : pc[k] = "returned" THEN ChunkDoneB
       ELSE /\ bpc' = "await"
            /\ UNCHANGED <<i, next, results, berror, paces, bfrom>>
  /\ UNCHANGED cfgVars

BatchPacedB ==
  /\ gen = "B" /\ bpc = "pace"
  /\ i' = i + maxConcurrent
  /\ bpc' = IF i' < Len(urls) THEN "map" ELSE "returned"
  /\ next' = i' + 1
  /\ UNCHANGED <<results, berror, paces, bfrom>>
  /\ UNCHANGED reqVars
  /\ UNCHANGED cfgVars

\* No timer or network callback runs while batch is in its synchronous part.
Suspended == bpc \notin {"call", "map"}

\* request(): attempt `attempt[j]` of call j ends in outcome o.
RequestSettleA(j, o) ==
  /\ gen = "A" /\ Suspended /\ pc[j] = "fetch"
  /\ Apply(j, requestA(o, attempt[j], retries, lastError[j]), o)
  /\ params' = params
  /\ attempt' = attempt
  /\ ReactA(j)
  /\ UNCHANGED cfgVars

RequestSettleB(j, o) ==
  /\ gen = "B" /\ Suspended /\ pc[j] = "fetch"
  /\ Apply(j, requestB(o, attempt[j], retries, lastError[j]), o)
  /\ params' = params
  /\ attempt' = attempt
  /\ ReactB(j)
  /\ UNCHANGED cfgVars

\* request(): the backoff sleep of call j ends; attempt++ and the loop test.
RequestWakeA(j) ==
  /\ gen = "A" /\ Suspended /\ pc[j] = "sleep"
  /\ attempt' = [attempt EXCEPT ![j] = @ + 1]
  /\ Apply(j, LoopA(attempt'[j], retries, lastError[j]), lastOutcome[j])
  /\ params' = params
  /\ ReactA(j)
  /\ UNCHANGED cfgVars

RequestWakeB(j) ==
  /\ gen = "B" /\ Suspended /\ pc[j] = "sleep"
  /\ attempt' = [attempt EXCEPT ![j] = @ + 1]
  /\ Apply(j, LoopB(attempt'[j], retries, lastError[j]), lastOutcome[j])
  /\ params' = params
  /\ ReactB(j)
  /\ UNCHANGED cfgVars

Next ==
  \/ BatchCallA
  \/ \E j \in DOMAIN urls : BatchMapA(j)
  \/ BatchAllA
  \/ BatchCallB
  \/ \E j \in DOMAIN urls : BatchMapB(j)
  \/ BatchAllB
  \/ BatchPacedB
  \/ \E j \in DOMAIN urls, o \in Outcomes : RequestSettleA(j, o)
  \/ \E j \in DOMAIN urls, o \in Outcomes : RequestSettleB(j, o)
  \/ \E j \in DOMAIN urls : RequestWakeA(j)
  \/ \E j \in DOMAIN urls : RequestWakeB(j)

Spec == Init /\ [][Next]_vars

\* ---- a screenshot call made on its own ---------------------------------------
\* The client is constructed and screenshot({...options, url}) is called once;
\* bpc = "none": no batch call is running.
ShotInit ==
  /\ gen \in {"A", "B"}
  /\ apiKey \in ApiKeySet
  /\ cerror = (IF gen = "A" THEN constructorA(apiKey) ELSE constructorB(apiKey))
  /\ retries \in 0..MaxShotRetries
  /\ maxConcurrent = 5
  /\ \E in \in ShotInputs : urls = <<in[1]>> /\ options = in[2]
  /\ bpc = "none"
  /\ i = 0
  /\ next = 1
  /\ results = <<>>
  /\ berror = NoError
  /\ paces = <<>>
  /\ bfrom = 0
  /\ pc = [j \in DOMAIN urls |-> "idle"]
  /\ attempt = [j \in DOMAIN urls |-> 0]
  /\ lastError = [j \in DOMAIN urls |-> NoError]
  /\ nfetch = [j \in DOMAIN urls |-> 0]
  /\ waits = [j \in DOMAIN urls |-> <<>>]
  /\ lastOutcome = [j \in DOMAIN urls |-> NoOutcome]
  /\ ret = [j \in DOMAIN urls |-> NoPayload]
  /\ err = [j \in DOMAIN urls |-> NoError]
  /\ params = NoParams
  /\ overtaken = FALSE

\* screenshot(options): validation, buildParams, request() up to its first fetch.
ScreenshotA ==
  /\ gen = "A" /\ cerror = NoError /\ bpc = "none" /\ pc[1] = "idle"
  /\ Apply(1, screenshotA(urls[1], options, retries), NoOutcome)
  /\ params' = paramsA(urls[1], options)
  /\ attempt' = attempt
  /\ UNCHANGED batchVars
  /\ UNCHANGED cfgVars

ScreenshotB ==
  /\ gen = "B" /\ cerror = NoError /\ bpc = "none" /\ pc[1] = "idle"
  /\ Apply(1, screenshotB(urls[1], options, retries), NoOutcome)
  /\ params' = paramsB(urls[1], options)
  /\ attempt' = attempt
  /\ UNCHANGED batchVars
  /\ UNCHANGED cfgVars

ShotNext ==
  \/ ScreenshotA
  \/ ScreenshotB
  \/ \E o \in Outcomes : RequestSettleA(1, o)
  \/ \E o \in Outcomes : RequestSettleB(1, o)
  \/ RequestWakeA(1)
  \/ RequestWakeB(1)

ShotSpec == ShotInit /\ [][ShotNext]_vars

\* ---- batch calls under fair scheduling ----------------------------------------
\* The constructor takes config.maxConcurrent as it is (`?? 5`), 0 included.
\* The event loop runs a callback that is ready, every timer fires and every
\* attempt ends: a step that is possible is eventually taken.
LiveInit ==
  /\ gen \in {"A", "B"}
  /\ apiKey = "sk_test"
  /\ cerror = (IF gen = "A" THEN constructorA(apiKey) ELSE constructorB(apiKey))
  /\ retries \in 0..MaxShotRetries
  /\ maxConcurrent \in 0..MaxLiveUrls
  /\ urls \in UNION {[1..n -> UrlSet] : n \in 0..MaxLiveUrls}
  /\ options = NoOptions
  /\ bpc = "call"
  /\ i = 0
  /\ next = 1
  /\ results = <<>>
  /\ berror = NoError
  /\ paces = <<>>
  /\ bfrom = 0
  /\ pc = [j \in DOMAIN urls |-> "idle"]
  /\ attempt = [j \in DOMAIN urls |-> 0]
  /\ lastError = [j \in DOMAIN urls |-> NoError]
  /\ nfetch = [j \in DOMAIN urls |-> 0]
  /\ waits = [j \in DOMAIN urls |-> <<>>]
  /\ lastOutcome = [j \in DOMAIN urls |-> NoOutcome]
  /\ ret = [j \in DOMAIN urls |-> NoPayload]
  /\ err = [j \in DOMAIN urls |-> NoError]
  /\ params = NoParams
  /\ overtaken = FALSE

BatchLiveSpec == LiveInit /\ [][Next]_vars /\ WF_vars(Next)

\* ---- a screenshot call with the two awaits of an attempt apart -----------------
\* An attempt awaits fetch(), with the deadline timer armed, and then the body
\* (response.json()), after clearTimeout.  pc = "fetch": awaiting fetch();
\* pc = "body": awaiting the body of the response kept in lastOutcome.
Responses == {o \in Outcomes : o.type = "response"}
FetchFailures == {o \in Outcomes : o.type # "response"}

\* setTimeout(() => controller.abort(), this.timeout) ... clearTimeout(timeoutId)
TimerArmed(j) == pc[j] = "fetch"

\* fetch() of call j fulfils with the response o; the timer is cleared and the
\* body is awaited.
RequestHeaders(j, o) ==
  /\ Suspended /\ pc[j] = "fetch"
  /\ pc' = [pc EXCEPT ![j] = "body"]
  /\ lastOutcome' = [lastOutcome EXCEPT ![j] = o]
  /\ UNCHANGED <<attempt, lastError, nfetch, waits, ret, err, params, overtaken>>
  /\ UNCHANGED batchVars
  /\ UNCHANGED cfgVars

\* The body of the response of call j arrives (and parses or not); the rest of
\* the attempt.
RequestBodyA(j) ==
  /\ gen = "A" /\ Suspended /\ pc[j] = "body"
  /\ Apply(j, requestA(lastOutcome[j], attempt[j], retries, lastError[j]), lastOutcome[j])
  /\ params' = params
  /\ attempt' = attempt
  /\ ReactA(j)
  /\ UNCHANGED cfgVars

RequestBodyB(j) ==
  /\ gen = "B" /\ Suspended /\ pc[j] = "body"
  /\ Apply(j, requestB(lastOutcome[j], attempt[j], retries, lastError[j]), lastOutcome[j])
  /\ params' = params
  /\ attempt' = attempt
  /\ ReactB(j)
  /\ UNCHANGED cfgVars

\* The call is made; fetch() ends, in a response, a rejection or the abort of
\* the timer; a backoff sleep ends.
ShotCalled == ScreenshotA \/ ScreenshotB

FetchEnds ==
  \/ \E o \in Responses : RequestHeaders(1, o)
  \/ \E o \in FetchFailures : RequestSettleA(1, o)
  \/ \E o \in FetchFailures : RequestSettleB(1, o)

BodyEnds == RequestBodyA(1) \/ RequestBodyB(1)

BackoffEnds == RequestWakeA(1) \/ RequestWakeB(1)

ShotLiveNext == ShotCalled \/ FetchEnds \/ BodyEnds \/ BackoffEnds

\* The timer ends every fetch() and every timer fires; nothing ends the wait
\* for a body.
ShotLiveSpec ==
  /\ ShotInit /\ [][ShotLiveNext]_vars
  /\ WF_vars(ShotCalled) /\ WF_vars(FetchEnds) /\ WF_vars(BackoffEnds)

TypeOK ==
  /\ bpc \in {"none", "call", "map", "await", "pace", "returned", "raised"}
  /\ \A j \in DOMAIN urls : pc[j] \in {"idle", "fetch", "body", "sleep", "returned", "raised"}

\* ---- vocabulary of the properties -------------------------------------------
Reqs == DOMAIN urls

Is2xx(o) == o.type = "response" /\ o.status >= 200 /\ o.status <= 299
Is4xx(o) == o.type = "response" /\ o.status >= 400 /\ o.status <= 499
Is5xx(o) == o.type = "response" /\ o.status >= 500 /\ o.status <= 599

\* A 2xx response whose body is not JSON delivers no payload.
Delivered(o) == Is2xx(o) /\ o.body.kind = "payload"

\* A retryable failure: a 5xx response, a timeout, or a network-level error
\* (fetch rejected, or the body of a 2xx response could not be read).
RetryableFailure(o) ==
  Is5xx(o) \/ o.type = "abort" \/ o.type = "network" \/ (Is2xx(o) /\ ~Delivered(o))

Pending(j) == pc[j] \in {"fetch", "sleep"}
Settled(j) == pc[j] \in {"returned", "raised"}

\* The chunk (0-based) the url with index j belongs to under the ceiling.
ChunkOf(j) == (j - 1) \div maxConcurrent

\* The n-th backoff wait of a call is 2^(n-1) seconds.
Doubling(w) == \A n \in 1..Len(w) : w[n] = Pow2(n - 1) * 1000

\* ---- C1 -----------------------------------------------------------------------
\* C1: a 4xx response, whatever its body, ends the call: the call has raised
\* an error whose statusCode is the status of that response, it is in no
\* backoff wait and issues no further attempt (so a 404 on attempt 0 means one
\* network attempt in all).
C1_ClientErrorEndsCall ==
  \A j \in Reqs :
    Is4xx(lastOutcome[j]) =>
      /\ pc[j] = "raised"
      /\ err[j].statusCode = lastOutcome[j].status
      /\ nfetch[j] = attempt[j] + 1

\* ---- C2 -----------------------------------------------------------------------
\* C2: while a call is in its retry loop its attempt index n is in 0..retries,
\* the call issues at most retries+1 fetches, and attempt n+1 follows attempt n
\* only after a retryable failure with n < retries.
C2_AttemptsBounded ==
  \A j \in Reqs :
    /\ Pending(j) => (0 <= attempt[j] /\ attempt[j] <= retries)
    /\ nfetch[j] <= retries + 1
    /\ pc[j] = "sleep" => (RetryableFailure(lastOutcome[j]) /\ attempt[j] < retries)
    /\ (pc[j] = "fetch" /\ attempt[j] > 0) => RetryableFailure(lastOutcome[j])

\* ---- C3 -----------------------------------------------------------------------
\* C3: the wait after attempt n is 2^n seconds; a call waits only after a
\* retryable failure of an attempt n < retries, never after the final attempt,
\* after a 4xx response or after a 2xx response that delivered its payload.
C3_BackoffDoubles ==
  \A j \in Reqs :
    /\ Doubling(waits[j])
    /\ Len(waits[j]) = IF pc[j] = "sleep" THEN attempt[j] + 1 ELSE attempt[j]
    /\ pc[j] = "sleep" =>
         /\ attempt[j] < retries
         /\ RetryableFailure(lastOutcome[j])
         /\ ~Is4xx(lastOutcome[j])
         /\ ~Delivered(lastOutcome[j])

\* ---- C4 -----------------------------------------------------------------------
\* C4 as stated: once an attempt receives a 2xx response the call has returned
\* the payload of that response.
C4_Any2xxIsTerminal ==
  \A j \in Reqs :
    Is2xx(lastOutcome[j]) => (pc[j] = "returned" /\ ret[j] = Payload(j))

\* C4 amended: once an attempt receives a 2xx response whose body parses as
\* JSON, the call has returned that payload (and issues nothing further); a
\* call that returned after k attempts waited 1s, 2s, ... between them.
C4_Delivered2xxIsTerminal ==
  \A j \in Reqs :
    /\ Delivered(lastOutcome[j]) => (pc[j] = "returned" /\ ret[j] = Payload(j))
    /\ pc[j] = "returned" =>
         /\ Delivered(lastOutcome[j])
         /\ nfetch[j] = attempt[j] + 1
         /\ Len(waits[j]) = nfetch[j] - 1
         /\ Doubling(waits[j])

\* Two failed attempts, the second a 503, then a 200: three attempts, waits of
\* 1s then 2s.
C4_Witness ==
  \E j \in Reqs :
    /\ retries = 2
    /\ pc[j] = "returned"
    /\ lastOutcome[j].status = 200
    /\ lastError[j].statusCode = 503
    /\ nfetch[j] = 3
    /\ waits[j] = <<1000, 2000>>

\* ---- C5 -----------------------------------------------------------------------
\* C5: a call whose retries+1 attempts all failed, the last in a retryable
\* way, raises the error recorded for that last attempt: the status of a final
\* 5xx, code TIMEOUT for a final timeout, code NETWORK_ERROR for a final
\* transport failure.
C5_LastErrorSurfaces ==
  \A j \in Reqs :
    (pc[j] = "raised" /\ nfetch[j] >= 1 /\ nfetch[j] = retries + 1) =>
      /\ Is5xx(lastOutcome[j]) => err[j].statusCode = lastOutcome[j].status
      /\ lastOutcome[j].type = "abort" => err[j].code = "TIMEOUT"
      /\ lastOutcome[j].type = "network" => err[j].code = "NETWORK_ERROR"

\* ---- C6 -----------------------------------------------------------------------
\* C6: at no time are more than maxConcurrent screenshot calls of the batch
\* started and not yet settled; the urls are started in input order, and the
\* calls pending together belong to one chunk of maxConcurrent consecutive urls.
C6_InFlightBounded ==
  /\ Cardinality({j \in Reqs : Pending(j)}) <= maxConcurrent
  /\ \A j, k \in Reqs : (k < j /\ pc[j] # "idle") => pc[k] # "idle"
  /\ \A j, k \in Reqs : (Pending(j) /\ Pending(k)) => ChunkOf(j) = ChunkOf(k)

\* ---- C7 -----------------------------------------------------------------------
\* C7: a call of chunk k+1 is started only when every call of chunk k has
\* settled.
C7_ChunksSequential ==
  \A j, k \in Reqs :
    (ChunkOf(k) < ChunkOf(j) /\ pc[j] # "idle") => Settled(k)

\* ---- C8 -----------------------------------------------------------------------
\* C8: the array batch returns has one element per input url, and element j is
\* the payload returned for the request of url j, whatever the order in which
\* the calls of a chunk completed.
C8_ResultsInInputOrder ==
  bpc = "returned" =>
    /\ Len(results) = Len(urls)
    /\ \A j \in Reqs : results[j] = Payload(j) /\ results[j] = ret[j]

\* A batch of two chunks returned, after a call had returned while the call
\* for an earlier url of its chunk was still pending.
C8_Witness ==
  /\ gen = "B"
  /\ bpc = "returned"
  /\ Len(urls) = 3
  /\ maxConcurrent = 2
  /\ overtaken

\* ---- C9 -----------------------------------------------------------------------
\* C9 as stated: whenever the call for some url has failed, batch has raised
\* the error of that call, and batch never returns an array.
C9_RaisesEachFailure ==
  /\ bpc = "returned" => \A j \in Reqs : pc[j] = "returned"
  /\ Suspended =>
       \A j \in Reqs : pc[j] = "raised" => (bpc = "raised" /\ berror = err[j])

\* C9 amended: whenever the call for some url has failed, batch has raised the
\* error of a failed call (the one whose rejection Promise.all saw first); it
\* returns an array only when every call returned, so nothing of the earlier
\* chunks is returned either.
C9_AllOrNothing ==
  /\ bpc = "returned" => \A j \in Reqs : pc[j] = "returned"
  /\ (Suspended /\ \E j \in Reqs : pc[j] = "raised") => bpc = "raised"
  /\ bpc = "raised" =>
       /\ bfrom \in Reqs
       /\ pc[bfrom] = "raised"
       /\ berror = err[bfrom]

\* The second chunk's call failed with a 500 after its retries were used up,
\* the first chunk's result already being in `results`.
C9_Witness ==
  /\ bpc = "raised"
  /\ Len(results) >= 1
  /\ retries >= 1
  /\ bfrom \in Reqs
  /\ nfetch[bfrom] = retries + 1
  /\ lastOutcome[bfrom].status = 500
  /\ berror.statusCode = 500

\* ---- C10 ----------------------------------------------------------------------
\* C10: once a call of chunk k has failed, no call for a url of a later chunk
\* is started and batch sleeps no further pacing delay.
C10_FailureAbortsLaterChunks ==
  [][/\ \A j \in Reqs :
          (pc[j] = "idle" /\ pc'[j] # "idle") =>
            ~\E k \in Reqs : pc[k] = "raised" /\ ChunkOf(k) < ChunkOf(j)
     /\ (\E k \in Reqs : pc[k] = "raised") => paces' = paces]_vars

\* ---- C11 ----------------------------------------------------------------------
\* The number of chunks of maxConcurrent consecutive urls the batch consists of.
NumChunks == (Len(urls) + maxConcurrent - 1) \div maxConcurrent

\* C11: every pacing delay is 100 ms; the delay number k is slept after every
\* call of chunk k has returned and before any call of chunk k+1 is started;
\* a batch that returned over m chunks slept exactly m-1 delays (none after
\* the last chunk, none for a single chunk).
C11_PacingBetweenChunks ==
  /\ \A n \in 1..Len(paces) : paces[n] = 100
  /\ \A j \in Reqs : pc[j] # "idle" => Len(paces) >= ChunkOf(j)
  /\ \A k \in Reqs : ChunkOf(k) < Len(paces) => pc[k] = "returned"
  /\ bpc = "returned" => Len(paces) = (IF Len(urls) = 0 THEN 0 ELSE NumChunks - 1)

\* ---- vocabulary of the validation rules ---------------------------------------
UrlMissing(url) == url = ""
UrlMalformed(url) == url # "" /\ UrlProtocol(url) \notin {"http:", "https:"}
QualityOut(opts) == opts.quality.present /\ (opts.quality.value < 1 \/ opts.quality.value > 100)
DelayOut(opts) == opts.delay.present /\ (opts.delay.value < 0 \/ opts.delay.value > 10000)

BreaksARule(url, opts) ==
  UrlMissing(url) \/ UrlMalformed(url) \/ QualityOut(opts) \/ DelayOut(opts)

ValidationCodes == {"MISSING_URL", "INVALID_URL", "INVALID_QUALITY", "INVALID_DELAY"}

\* The call was made: screenshot() has run its synchronous part.
Called(j) == pc[j] # "idle"

\* ---- C12 ----------------------------------------------------------------------
\* C12: a screenshot call whose options break a validation rule has raised a
\* validation error without any network attempt and without any backoff wait;
\* with an empty url the error has code MISSING_URL.
C12_ValidationBeforeNetwork ==
  \A j \in Reqs :
    Called(j) =>
      /\ BreaksARule(urls[j], options) =>
           /\ pc[j] = "raised"
           /\ err[j].code \in ValidationCodes
           /\ nfetch[j] = 0
           /\ waits[j] = <<>>
      /\ UrlMissing(urls[j]) => (pc[j] = "raised" /\ err[j].code = "MISSING_URL")

\* ---- C13 ----------------------------------------------------------------------
\* C13: a call with a non-empty url that is no absolute http or https URL has
\* raised an error with code INVALID_URL; a call with an http or https url
\* raises neither MISSING_URL nor INVALID_URL.
C13_UrlFormat ==
  \A j \in Reqs :
    Called(j) =>
      /\ UrlMalformed(urls[j]) => (pc[j] = "raised" /\ err[j].code = "INVALID_URL")
      /\ UrlProtocol(urls[j]) \in {"http:", "https:"} =>
           err[j].code \notin {"MISSING_URL", "INVALID_URL"}

\* ---- C14 ----------------------------------------------------------------------
\* C14: with a good url, a call whose quality is present and below 1 or above
\* 100 has raised an error with code INVALID_QUALITY, has made no network
\* attempt and has built no quality parameter; a call whose quality is absent
\* or in 1..100 raises no INVALID_QUALITY.
C14_QualityRange ==
  \A j \in Reqs :
    (Called(j) /\ isValidUrl(urls[j])) =>
      /\ QualityOut(options) =>
           /\ pc[j] = "raised"
           /\ err[j].code = "INVALID_QUALITY"
           /\ nfetch[j] = 0
           /\ params.quality = "null"
      /\ ~QualityOut(options) => err[j].code # "INVALID_QUALITY"

\* ---- C15 ----------------------------------------------------------------------
\* C15: with a good url and a good quality, a call whose delay is present and
\* below 0 or above 10000 has raised an error with code INVALID_DELAY and has
\* made no network attempt; a call whose delay is absent or in 0..10000 raises
\* no INVALID_DELAY.
C15_DelayRange ==
  \A j \in Reqs :
    (Called(j) /\ isValidUrl(urls[j]) /\ ~QualityOut(options)) =>
      /\ DelayOut(options) =>
           /\ pc[j] = "raised"
           /\ err[j].code = "INVALID_DELAY"
           /\ nfetch[j] = 0
      /\ ~DelayOut(options) => err[j].code # "INVALID_DELAY"

\* ---- C16 ----------------------------------------------------------------------
\* The codes of the rules the input breaks, and the code of the first of them
\* in the order url presence, url format, quality, delay.
BrokenRules(url, opts) ==
  {c \in ValidationCodes :
     \/ c = "MISSING_URL" /\ UrlMissing(url)
     \/ c = "INVALID_URL" /\ UrlMalformed(url)
     \/ c = "INVALID_QUALITY" /\ QualityOut(opts)
     \/ c = "INVALID_DELAY" /\ DelayOut(opts)}

FirstBroken(url, opts) ==
  CASE UrlMissing(url) -> "MISSING_URL"
    [] UrlMalformed(url) -> "INVALID_URL"
    [] QualityOut(opts) -> "INVALID_QUALITY"
    [] OTHER -> "INVALID_DELAY"

\* C16: a call whose input breaks two or more rules has raised the error of
\* the first broken rule in the order url presence, url format, quality, delay.
C16_FirstRuleReported ==
  \A j \in Reqs :
    (Called(j) /\ Cardinality(BrokenRules(urls[j], options)) >= 2) =>
      (pc[j] = "raised" /\ err[j].code = FirstBroken(urls[j], options))

\* ---- C17 ----------------------------------------------------------------------
\* C17: an attempt n ended by the deadline is recorded as a failure with code
\* TIMEOUT; with n < retries the call sleeps the backoff 2^n seconds and then
\* issues attempt n+1, with n = retries the call has raised an error with code
\* TIMEOUT.
C17_TimeoutRetryable ==
  \A j \in Reqs :
    lastOutcome[j].type = "abort" =>
      /\ pc[j] \in {"sleep", "fetch", "raised"}
      /\ lastError[j].code = "TIMEOUT"
      /\ pc[j] = "sleep" =>
           /\ attempt[j] < retries
           /\ waits[j][Len(waits[j])] = Pow2(attempt[j]) * 1000
      /\ pc[j] = "fetch" =>
           /\ 1 <= attempt[j] /\ attempt[j] <= retries
           /\ nfetch[j] = attempt[j] + 1
      /\ pc[j] = "raised" => (attempt[j] = retries /\ err[j].code = "TIMEOUT")

\* ---- C18 ----------------------------------------------------------------------
\* A response that is not 2xx and whose body does not parse.
UnparseableError(o) ==
  o.type = "response" /\ ~(o.status >= 200 /\ o.status <= 299) /\ o.body.kind = "garbage"

\* C18: for an attempt answered by a non-2xx response whose body does not
\* parse, the error raised (4xx) or recorded (5xx) is a ShotAPIException with
\* code HTTP_ERROR, the message made from the status, and the status as
\* statusCode; the call never raises the parse error; a 4xx ends the call
\* without a retry and a 5xx is retried while attempts remain.
C18_UnparseableErrorBody ==
  \A j \in Reqs :
    UnparseableError(lastOutcome[j]) =>
      LET e == IF Is4xx(lastOutcome[j]) THEN err[j] ELSE lastError[j]
      IN /\ e.name = "ShotAPIException"
         /\ e.code = "HTTP_ERROR"
         /\ e.message = "HTTP " \o ToString(lastOutcome[j].status)
         /\ e.statusCode = lastOutcome[j].status
         /\ err[j].name # "SyntaxError"
         /\ Is4xx(lastOutcome[j]) => (pc[j] = "raised" /\ nfetch[j] = attempt[j] + 1)
         /\ Is5xx(lastOutcome[j]) =>
              /\ pc[j] \in {"sleep", "fetch", "raised"}
              /\ pc[j] = "sleep" => attempt[j] < retries
              /\ pc[j] = "fetch" => attempt[j] >= 1
              /\ pc[j] = "raised" => (attempt[j] = retries /\ err[j] = lastError[j])

\* ---- C19 ----------------------------------------------------------------------
\* The retry state and the result of call j.
CallState(j) ==
  <<pc[j], attempt[j], lastError[j], nfetch[j], waits[j], lastOutcome[j], ret[j], err[j]>>

\* The error an attempt that ended in outcome o leaves behind.
AttemptError(o) ==
  IF gen = "A" THEN ThrownA(o)
  ELSE IF o.type = "response" /\ ~ResponseOk(o.status) THEN HttpErrorB(o)
  ELSE CaughtB(o)

\* The error validation raises for the input of call j.
InputError(j) ==
  IF gen = "A" THEN ValidateA(urls[j], options) ELSE ValidateB(urls[j], options)

\* The state of call j is what its own input and its own responses make it.
OwnHistory(j) ==
  /\ (pc[j] = "fetch" /\ nfetch[j] = 1) =>
       (attempt[j] = 0 /\ lastError[j] = NoError /\ waits[j] = <<>>)
  /\ nfetch[j] >= 1 => nfetch[j] = attempt[j] + 1
  /\ Len(waits[j]) = (IF pc[j] = "sleep" THEN attempt[j] + 1 ELSE attempt[j])
  /\ Doubling(waits[j])
  /\ (pc[j] = "sleep" \/ (pc[j] = "fetch" /\ attempt[j] >= 1)) =>
       lastError[j] = AttemptError(lastOutcome[j])
  /\ (pc[j] = "raised" /\ nfetch[j] >= 1) => err[j] = AttemptError(lastOutcome[j])
  /\ (pc[j] = "raised" /\ nfetch[j] = 0) =>
       IF InputError(j) # NoError THEN err[j] = InputError(j) ELSE retries < 0

\* C19: every call starts at attempt 0 with no last error; the attempts, the
\* waits and the raised error of a call are those its own responses produce;
\* and no step changes the retry state or the result of two calls, so a step
\* of one call leaves every other call as it was.
C19_RetryStatePerCall ==
  /\ [](\A j \in Reqs : OwnHistory(j))
  /\ [][Cardinality({j \in Reqs : CallState(j)' # CallState(j)}) <= 1]_vars

\* Two calls in flight together: one has failed and is in its second attempt,
\* the other is still in its first attempt with nothing recorded.
C19_Witness ==
  \E j, k \in Reqs :
    /\ j # k
    /\ pc[j] = "fetch" /\ nfetch[j] = 2 /\ lastError[j] # NoError
    /\ pc[k] = "fetch" /\ attempt[k] = 0 /\ lastError[k] = NoError /\ waits[k] = <<>>

\* ---- C20 ----------------------------------------------------------------------
\* C20: the params built for options that name a device preset have the
\* width and height of the preset, mobile=true exactly when the preset is
\* mobile and scale exactly when the preset's scale is not 1 (then the
\* preset's), whatever explicit width, height, scale and mobile the options
\* carry: iphone-14-pro gives 393, 852, true, 3; desktop gives 1920, 1080 and
\* neither mobile nor scale.
C20_PresetWins ==
  \A j \in Reqs :
    (Called(j) /\ InputError(j) = NoError /\ options.device \in DOMAIN DEVICE_PRESETS) =>
      LET preset == DEVICE_PRESETS[options.device]
      IN /\ params.width = ToString(preset.width)
         /\ params.height = ToString(preset.height)
         /\ params.mobile = (IF preset.mobile THEN "true" ELSE "null")
         /\ params.scale = (IF preset.scale # 1 THEN ToString(preset.scale) ELSE "null")
         /\ options.device = "iphone-14-pro" =>
              /\ params.width = "393" /\ params.height = "852"
              /\ params.mobile = "true" /\ params.scale = "3"
         /\ options.device = "desktop" =>
              /\ params.width = "1920" /\ params.height = "1080"
              /\ params.mobile = "null" /\ params.scale = "null"

\* ---- C21 ----------------------------------------------------------------------
\* C21: the params built for options that name no device preset have width
\* and height exactly when the options give them, with the values given, and
\* have mobile and scale only when the options set them: width 1280 and height
\* 720 alone give width=1280, height=720 and neither mobile nor scale.
C21_NoPresetParams ==
  \A j \in Reqs :
    (Called(j) /\ InputError(j) = NoError /\ options.device = "undefined") =>
      /\ params.width =
           (IF options.width.present THEN ToString(options.width.value) ELSE "null")
      /\ params.height =
           (IF options.height.present THEN ToString(options.height.value) ELSE "null")
      /\ params.mobile # "null" => (options.mobile = "true" /\ params.mobile = "true")
      /\ params.scale # "null" =>
           (options.scale.present /\ params.scale = ToString(options.scale.value))
      /\ (/\ options.width = Some(1280) /\ options.height = Some(720)
          /\ ~options.scale.present /\ options.mobile = "undefined") =>
           /\ params.width = "1280" /\ params.height = "720"
           /\ params.mobile = "null" /\ params.scale = "null"

\* ---- C22 ----------------------------------------------------------------------
HasCode(e) == e.code \notin {"undefined", ""}

\* The codes the client itself gives a failed request.
RequestCodes == {"HTTP_ERROR", "TIMEOUT", "NETWORK_ERROR", "UNKNOWN_ERROR", "MAX_RETRIES"}

\* C22: the error the constructor throws has code MISSING_API_KEY; the error
\* a screenshot call raises has a code, a validation code when validation
\* failed and otherwise the code the server sent or one of HTTP_ERROR,
\* TIMEOUT, NETWORK_ERROR, UNKNOWN_ERROR, MAX_RETRIES; the error batch raises
\* has a code.
C22_EveryErrorCoded ==
  /\ cerror # NoError => cerror.code = "MISSING_API_KEY"
  /\ \A j \in Reqs :
       pc[j] = "raised" =>
         /\ HasCode(err[j])
         /\ InputError(j) # NoError => err[j].code \in ValidationCodes
         /\ InputError(j) = NoError =>
              \/ err[j].code \in RequestCodes
              \/ err[j].code = lastOutcome[j].body.code
  /\ bpc = "raised" => HasCode(berror)

\* ---- C23 ----------------------------------------------------------------------
\* C23: under fair scheduling every batch call comes to its end, it returns
\* or raises, whatever maxConcurrent the client was constructed with; and
\* every time the chunk loop goes round, its index i has grown.
C23_BatchTerminates ==
  /\ <>(bpc \in {"returned", "raised"})
  /\ [][(bpc = "pace" /\ bpc' # "pace") => i' > i]_vars

\* ---- C24 ----------------------------------------------------------------------
\* C24: a screenshot call that was made eventually returns or raises, given
\* that every fetch ends and every backoff timer fires; and as long as an
\* attempt has no classified outcome (fetch or body awaited) its deadline
\* timer is armed.
C24_ScreenshotTerminates ==
  /\ (pc[1] # "idle") ~> (pc[1] \in {"returned", "raised"})
  /\ [](pc[1] \in {"fetch", "body"} => TimerArmed(1))

\* ---- C25 ----------------------------------------------------------------------
\* C25: a call whose options pass validation has made at least one network
\* attempt when it raises, and the error it raises is never the fallback
\* 'Request failed after retries' (code MAX_RETRIES); with retries = 0 a call
\* that has ended made exactly one attempt and slept no backoff.
C25_FallbackUnreachable ==
  \A j \in Reqs :
    (Called(j) /\ InputError(j) = NoError) =>
      /\ pc[j] = "raised" =>
           /\ nfetch[j] >= 1
           /\ err[j].message # "Request failed after retries"
           /\ err[j].code # "MAX_RETRIES"
      /\ (retries = 0 /\ Settled(j)) => (nfetch[j] = 1 /\ waits[j] = <<>>)

\* ---- C26 ----------------------------------------------------------------------
\* C26: once the batch call has raised, no screenshot call of the batch issues
\* a further network attempt or starts a further backoff wait.
C26_NoWorkAfterRaise ==
  [][bpc = "raised" => (nfetch' = nfetch /\ waits' = waits)]_vars

====
